---- MODULE Spec2Model ----
(***************************************************************************)
(* Model of the pixel art generator (src/python_tutorial_38d8ea.py):       *)
(* generate_pixel_data builds a checkerboard grid from a palette, and      *)
(* create_image_from_pixels copies a grid to a canvas and saves it.        *)
(* Both functions are modelled statement by statement: one action per loop *)
(* test, loop body, early return and raise.                                *)
(***************************************************************************)
EXTENDS Integers, Sequences, FiniteSets, TLC

(* ------------------------------ bounds --------------------------------- *)
MaxWidth == 2
MaxHeight == 2
MaxPaletteLen == 2
MaxRows == 2
MaxCols == 2

(* ------------------------------ values --------------------------------- *)
Colors == {<<50, 50, 50>>, <<200, 200, 200>>}

SeqsUpTo(S, n) == UNION {[1..k -> S] : k \in 0..n}

Widths == -1..MaxWidth
Heights == -1..MaxHeight
Palettes == SeqsUpTo(Colors, MaxPaletteLen)
WriterGrids == SeqsUpTo(SeqsUpTo(Colors, MaxCols), MaxRows)

VARIABLES
  pc,            \* position of the running call, "idle" between calls
  result,        \* what the caller receives: "none" while running, "grid", "None", or the exception raised
  width, height, palette,   \* parameters of generate_pixel_data
  palette_at_call,          \* history: the palette's content when generate_pixel_data was called
  y, x, row, pixel_grid,    \* locals of generate_pixel_data
  pixel_data,               \* parameter of create_image_from_pixels
  w_height, w_width,        \* locals height, width of create_image_from_pixels
  img_allocated, img,       \* the canvas of create_image_from_pixels
  wy, wx,                   \* loop variables y, x of create_image_from_pixels
  copied,                   \* history: the canvas coordinates putpixel was called on
  printed,                  \* the message the writer printed, "none" if none
  save_attempts,            \* history: calls of img.save in the running writer call
  save_failed,              \* history: the save of the running writer call failed
  file,                     \* the file at output_filename
  file_at_call,             \* history: the file when create_image_from_pixels was called
  seen                      \* history: one earlier completed generate_pixel_data call

vars == <<pc, result, width, height, palette, palette_at_call, y, x, row,
          pixel_grid, pixel_data, w_height, w_width, img_allocated, img,
          wy, wx, copied, printed, save_attempts, save_failed, file,
          file_at_call, seen>>

genLocals == <<width, height, palette, palette_at_call, y, x, row, pixel_grid>>
wLocals == <<pixel_data, w_height, w_width, img_allocated, img, wy, wx,
             copied, printed, save_attempts, save_failed, file_at_call>>

GenPcs == {"gen_outer", "gen_inner", "gen_returned", "gen_raised"}
WriterPcs == {"w_check", "w_outer", "w_inner", "w_save", "w_returned", "w_raised"}

(* ------------------------------ canvas and file ------------------------ *)
Black == <<0, 0, 0>>
NoImage == [c \in {} |-> Black]
\* Image.new('RGB', (width, height)): a blank canvas indexed by (x, y)
NewImage(w, h) == [c \in (0..(w - 1)) \X (0..(h - 1)) |-> Black]

NoFile == [state |-> "absent", size |-> <<0, 0>>, data |-> <<>>]
PartialFile == [state |-> "partial", size |-> <<0, 0>>, data |-> <<>>]
\* img.save on success: the raster in scan-line order with its size
Encode(im, w, h) ==
  [state |-> "written", size |-> <<w, h>>,
   data |-> [i \in 1..(w * h) |-> im[<<(i - 1) % w, (i - 1) \div w>>]]]

NoSeen == [set |-> FALSE, again |-> FALSE, width |-> 0, height |-> 0, palette |-> <<>>, grid |-> <<>>]

(* ------------------------------ generate_pixel_data -------------------- *)
ColorIndexStateful(cx, cy) ==
  IF seen.set
    THEN (IF (cx % 2 = 0 /\ cy % 2 = 0) \/ (cx % 2 # 0 /\ cy % 2 # 0) THEN 1 ELSE 0)
    ELSE (IF (cx % 2 = 0 /\ cy % 2 = 0) \/ (cx % 2 # 0 /\ cy % 2 # 0) THEN 0 ELSE 1)

ColorIndexRowOnly(cx, cy) == IF cx % 2 = 0 THEN 0 ELSE 1

\* the pattern logic: index 0 when x and y are both even or both odd
ColorIndex(cx, cy) ==
  IF (cx % 2 = 0 /\ cy % 2 = 0) \/ (cx % 2 # 0 /\ cy % 2 # 0) THEN 0 ELSE 1

HasNextRowOffByOne == y <= height

\* for y in range(height)
HasNextRow == y < height

\* for x in range(width)
HasNextCol == x < width

\* palette[color_index] is within the list
PaletteHas(i) == i < Len(palette)

CallGenerate(w, h, p) ==
  /\ pc = "idle"
  /\ pc' = "gen_outer"
  /\ result' = "none"
  /\ width' = w /\ height' = h /\ palette' = p /\ palette_at_call' = p
  /\ pixel_grid' = <<>>
  /\ y' = 0 /\ x' = 0 /\ row' = <<>>
  /\ seen' = IF seen.set /\ seen.width = w /\ seen.height = h /\ seen.palette = p
               THEN [seen EXCEPT !.again = TRUE] ELSE seen
  /\ UNCHANGED <<wLocals, file>>

GenRowStart ==
  /\ pc = "gen_outer"
  /\ HasNextRow
  /\ row' = <<>>
  /\ x' = 0
  /\ pc' = "gen_inner"
  /\ UNCHANGED <<result, width, height, palette, palette_at_call, y, pixel_grid,
                 wLocals, file, seen>>

GenCell ==
  /\ pc = "gen_inner"
  /\ HasNextCol
  /\ PaletteHas(ColorIndex(x, y))
  /\ row' = Append(row, palette[ColorIndex(x, y) + 1])
  /\ x' = x + 1
  /\ UNCHANGED <<pc, result, width, height, palette, palette_at_call, y,
                 pixel_grid, wLocals, file, seen>>

GenIndexError ==
  /\ pc = "gen_inner"
  /\ HasNextCol
  /\ ~PaletteHas(ColorIndex(x, y))
  /\ pc' = "gen_raised"
  /\ result' = "IndexError"
  /\ UNCHANGED <<genLocals, wLocals, file, seen>>

GenRowDone ==
  /\ pc = "gen_inner"
  /\ ~HasNextCol
  /\ pixel_grid' = Append(pixel_grid, row)
  /\ y' = y + 1
  /\ pc' = "gen_outer"
  /\ UNCHANGED <<result, width, height, palette, palette_at_call, x, row,
                 wLocals, file, seen>>

GenReturn ==
  /\ pc = "gen_outer"
  /\ ~HasNextRow
  /\ pc' = "gen_returned"
  /\ result' = "grid"
  /\ UNCHANGED <<genLocals, wLocals, file, seen>>

\* history only: keep a completed call with valid arguments, to compare a
\* later call with the same arguments against it
Remember ==
  /\ pc = "gen_returned"
  /\ width > 0 /\ height > 0 /\ Len(palette) >= 2
  /\ ~seen.set
  /\ seen' = [set |-> TRUE, again |-> FALSE, width |-> width, height |-> height,
              palette |-> palette, grid |-> pixel_grid]
  /\ UNCHANGED <<pc, result, genLocals, wLocals, file>>

(* ------------------------------ create_image_from_pixels --------------- *)
EnterWriter(g) ==
  /\ pc' = "w_check"
  /\ result' = "none"
  /\ pixel_data' = g
  /\ w_height' = 0 /\ w_width' = 0
  /\ img_allocated' = FALSE /\ img' = NoImage
  /\ wy' = 0 /\ wx' = 0
  /\ copied' = {}
  /\ printed' = "none"
  /\ save_attempts' = 0
  /\ save_failed' = FALSE
  /\ file_at_call' = file
  /\ width' = 0 /\ height' = 0 /\ palette' = <<>> /\ palette_at_call' = <<>>
  /\ y' = 0 /\ x' = 0 /\ row' = <<>> /\ pixel_grid' = <<>>
  /\ UNCHANGED <<file, seen>>

\* create_image_from_pixels(generated_data, ...), as the script calls it
CallWriterOnGenerated ==
  /\ pc = "gen_returned"
  /\ EnterWriter(pixel_grid)

\* create_image_from_pixels called with any list of lists
CallWriter(g) ==
  /\ pc = "idle"
  /\ EnterWriter(g)

WCheckEmpty ==
  /\ pc = "w_check"
  /\ Len(pixel_data) = 0
  /\ printed' = "Error: Pixel data is empty."
  /\ pc' = "w_returned"
  /\ result' = "None"
  /\ UNCHANGED <<genLocals, pixel_data, w_height, w_width, img_allocated, img,
                 wy, wx, copied, save_attempts, save_failed, file_at_call,
                 file, seen>>

WCheckRowsEmpty ==
  /\ pc = "w_check"
  /\ Len(pixel_data) # 0
  /\ Len(pixel_data[1]) = 0
  /\ w_height' = Len(pixel_data)
  /\ printed' = "Error: Pixel data rows are empty."
  /\ pc' = "w_returned"
  /\ result' = "None"
  /\ UNCHANGED <<genLocals, pixel_data, w_width, img_allocated, img,
                 wy, wx, copied, save_attempts, save_failed, file_at_call,
                 file, seen>>

WAllocate ==
  /\ pc = "w_check"
  /\ Len(pixel_data) # 0
  /\ Len(pixel_data[1]) # 0
  /\ w_height' = Len(pixel_data)
  /\ w_width' = Len(pixel_data[1])
  /\ img_allocated' = TRUE
  /\ img' = NewImage(Len(pixel_data[1]), Len(pixel_data))
  /\ wy' = 0
  /\ pc' = "w_outer"
  /\ UNCHANGED <<result, genLocals, pixel_data, wx, copied, printed,
                 save_attempts, save_failed, file_at_call, file, seen>>

\* for y in range(height)
WHasNextRow == wy < w_height

WHasNextColOwnRow == wx < Len(pixel_data[wy + 1])

\* for x in range(width)
WHasNextCol == wx < w_width

PutPixelCoordSwapped(cx, cy) == <<cy, cx>>

\* img.putpixel((x, y), color)
PutPixelCoord(cx, cy) == <<cx, cy>>

WRowStart ==
  /\ pc = "w_outer"
  /\ WHasNextRow
  /\ wx' = 0
  /\ pc' = "w_inner"
  /\ UNCHANGED <<result, genLocals, pixel_data, w_height, w_width,
                 img_allocated, img, wy, copied, printed, save_attempts,
                 save_failed, file_at_call, file, seen>>

WCopyCell ==
  /\ pc = "w_inner"
  /\ WHasNextCol
  /\ wx < Len(pixel_data[wy + 1])
  /\ img' = [img EXCEPT ![PutPixelCoord(wx, wy)] = pixel_data[wy + 1][wx + 1]]
  /\ copied' = copied \cup {PutPixelCoord(wx, wy)}
  /\ wx' = wx + 1
  /\ UNCHANGED <<pc, result, genLocals, pixel_data, w_height, w_width,
                 img_allocated, wy, printed, save_attempts, save_failed,
                 file_at_call, file, seen>>

\* pixel_data[y][x] on a row shorter than the first one
WCopyIndexError ==
  /\ pc = "w_inner"
  /\ WHasNextCol
  /\ ~(wx < Len(pixel_data[wy + 1]))
  /\ pc' = "w_raised"
  /\ result' = "IndexError"
  /\ UNCHANGED <<genLocals, wLocals, file, seen>>

WRowDone ==
  /\ pc = "w_inner"
  /\ ~WHasNextCol
  /\ wy' = wy + 1
  /\ pc' = "w_outer"
  /\ UNCHANGED <<result, genLocals, pixel_data, w_height, w_width,
                 img_allocated, img, wx, copied, printed, save_attempts,
                 save_failed, file_at_call, file, seen>>

WCopyDone ==
  /\ pc = "w_outer"
  /\ ~WHasNextRow
  /\ pc' = "w_save"
  /\ UNCHANGED <<result, genLocals, wLocals, file, seen>>

SaveFailedRetryPc == "w_save"

\* except IOError: print, and fall off the end of the function
SaveFailedPc == "w_returned"

\* img.save(output_filename) succeeds
WSaveOk ==
  /\ pc = "w_save"
  /\ save_attempts' = save_attempts + 1
  /\ file' = Encode(img, w_width, w_height)
  /\ printed' = "Image saved successfully"
  /\ pc' = "w_returned"
  /\ result' = "None"
  /\ UNCHANGED <<genLocals, pixel_data, w_height, w_width, img_allocated, img,
                 wy, wx, copied, save_failed, file_at_call, seen>>

\* img.save(output_filename) raises IOError, which the function catches
WSaveIOError ==
  /\ pc = "w_save"
  /\ save_attempts' = save_attempts + 1
  /\ save_failed' = TRUE
  /\ file' \in {file, PartialFile}
  /\ printed' = "Error: Could not save image"
  /\ pc' = SaveFailedPc
  /\ result' = IF SaveFailedPc = "w_returned" THEN "None" ELSE "none"
  /\ UNCHANGED <<genLocals, pixel_data, w_height, w_width, img_allocated, img,
                 wy, wx, copied, file_at_call, seen>>

\* img.save(output_filename) raises an exception that is not an IOError
\* (ValueError for an unknown extension), which the function does not catch
WSaveOtherError ==
  /\ pc = "w_save"
  /\ save_attempts' = save_attempts + 1
  /\ save_failed' = TRUE
  /\ pc' = "w_raised"
  /\ result' = "ValueError"
  /\ UNCHANGED <<genLocals, pixel_data, w_height, w_width, img_allocated, img,
                 wy, wx, copied, printed, file_at_call, file, seen>>

(* ------------------------------ caller --------------------------------- *)
\* the call is over: its locals are gone, the file and the history stay
Return ==
  /\ pc \in {"gen_returned", "gen_raised", "w_returned", "w_raised"}
  /\ pc' = "idle"
  /\ result' = "none"
  /\ width' = 0 /\ height' = 0 /\ palette' = <<>> /\ palette_at_call' = <<>>
  /\ y' = 0 /\ x' = 0 /\ row' = <<>> /\ pixel_grid' = <<>>
  /\ pixel_data' = <<>>
  /\ w_height' = 0 /\ w_width' = 0
  /\ img_allocated' = FALSE /\ img' = NoImage
  /\ wy' = 0 /\ wx' = 0
  /\ copied' = {}
  /\ printed' = "none"
  /\ save_attempts' = 0
  /\ save_failed' = FALSE
  /\ file_at_call' = NoFile
  /\ UNCHANGED <<file, seen>>

Init ==
  /\ pc = "idle"
  /\ result = "none"
  /\ width = 0 /\ height = 0 /\ palette = <<>> /\ palette_at_call = <<>>
  /\ y = 0 /\ x = 0 /\ row = <<>> /\ pixel_grid = <<>>
  /\ pixel_data = <<>>
  /\ w_height = 0 /\ w_width = 0
  /\ img_allocated = FALSE /\ img = NoImage
  /\ wy = 0 /\ wx = 0
  /\ copied = {}
  /\ printed = "none"
  /\ save_attempts = 0
  /\ save_failed = FALSE
  /\ file = NoFile
  /\ file_at_call = NoFile
  /\ seen = NoSeen

Next ==
  \/ \E w \in Widths, h \in Heights, p \in Palettes : CallGenerate(w, h, p)
  \/ GenRowStart
  \/ GenCell
  \/ GenIndexError
  \/ GenRowDone
  \/ GenReturn
  \/ CallWriterOnGenerated
  \/ \E g \in WriterGrids : CallWriter(g)
  \/ WCheckEmpty
  \/ WCheckRowsEmpty
  \/ WAllocate
  \/ WRowStart
  \/ WCopyCell
  \/ WCopyIndexError
  \/ WRowDone
  \/ WCopyDone
  \/ WSaveOk
  \/ WSaveIOError
  \/ WSaveOtherError
  \/ Return

Spec == Init /\ [][Next]_vars

\* the script's use, repeated: generate, keep the result, write it, generate again
NextDet ==
  \/ \E w \in Widths, h \in Heights, p \in Palettes : CallGenerate(w, h, p)
  \/ GenRowStart
  \/ GenCell
  \/ GenIndexError
  \/ GenRowDone
  \/ GenReturn
  \/ Remember
  \/ CallWriterOnGenerated
  \/ WCheckEmpty
  \/ WCheckRowsEmpty
  \/ WAllocate
  \/ WRowStart
  \/ WCopyCell
  \/ WRowDone
  \/ WCopyDone
  \/ WSaveOk
  \/ WSaveIOError
  \/ WSaveOtherError
  \/ Return

SpecDet == Init /\ [][NextDet]_vars

(* ------------------------------ properties ----------------------------- *)
GenValid == width > 0 /\ height > 0 /\ Len(palette) >= 2

SameParity(cx, cy) == cx % 2 = cy % 2

GridShapeOK ==
  /\ Len(pixel_grid) = height
  /\ \A i \in 1..Len(pixel_grid) : Len(pixel_grid[i]) = width

Rectangular(g) ==
  /\ Len(g) > 0
  /\ Len(g[1]) > 0
  /\ \A i \in 1..Len(g) : Len(g[i]) = Len(g[1])

Ragged(g) ==
  /\ Len(g) > 0
  /\ Len(g[1]) > 0
  /\ \E i \in 1..Len(g) : Len(g[i]) < Len(g[1])

EmptyInput(g) == Len(g) = 0 \/ Len(g[1]) = 0

\* reading a written file back as a grid of rows
Decode(f) ==
  [r \in 1..f.size[2] |-> [c \in 1..f.size[1] |-> f.data[(r - 1) * f.size[1] + c]]]

WriterEnded == pc \in {"w_returned", "w_raised"}

\* C1 as stated: for positive width and height and a palette of at least two
\* entries, the returned grid has palette[0] at (x, y) if and only if x and y
\* have the same parity, and palette[1] otherwise.
C1_Original ==
  (pc = "gen_returned" /\ GenValid) =>
    /\ GridShapeOK
    /\ \A gy \in 0..(height - 1), gx \in 0..(width - 1) :
         /\ (pixel_grid[gy + 1][gx + 1] = palette[1]) <=> SameParity(gx, gy)
         /\ ~SameParity(gx, gy) => pixel_grid[gy + 1][gx + 1] = palette[2]

\* C1 amended: for positive width and height and a palette of at least two
\* entries the call returns a grid that has palette[0] at (x, y) when x and y
\* have the same parity and palette[1] otherwise; the cell equals palette[0]
\* only at same-parity positions when palette[0] and palette[1] differ.
C1_ParityPattern ==
  (pc \in GenPcs /\ GenValid) =>
    /\ pc # "gen_raised"
    /\ pc = "gen_returned" =>
         /\ GridShapeOK
         /\ \A gy \in 0..(height - 1), gx \in 0..(width - 1) :
              /\ pixel_grid[gy + 1][gx + 1] =
                   IF SameParity(gx, gy) THEN palette[1] ELSE palette[2]
              /\ palette[1] # palette[2] =>
                   ((pixel_grid[gy + 1][gx + 1] = palette[1]) <=> SameParity(gx, gy))

C1_Witness ==
  /\ pc = "gen_returned"
  /\ width = 2 /\ height = 2
  /\ Len(palette) = 2 /\ palette[1] # palette[2]
  /\ pixel_grid = <<<<palette[1], palette[2]>>, <<palette[2], palette[1]>>>>

\* C2: for valid arguments the grid never holds more than height rows nor a
\* row more than width cells while it is built, every finished row has width
\* cells, and the returned grid has exactly height rows.
C2_Shape ==
  (pc \in GenPcs /\ GenValid) =>
    /\ Len(pixel_grid) <= height
    /\ Len(row) <= width
    /\ \A i \in 1..Len(pixel_grid) : Len(pixel_grid[i]) = width
    /\ pc = "gen_returned" => Len(pixel_grid) = height

C2_Witness ==
  /\ pc = "gen_returned"
  /\ GenValid
  /\ width = 1 /\ height = 2
  /\ Len(pixel_grid) = 2 /\ Len(pixel_grid[1]) = 1 /\ Len(pixel_grid[2]) = 1

\* C3: for a non-empty rectangular grid the canvas has the width of the first
\* row and the height of the row count, at the save every canvas pixel (x, y)
\* equals grid[y][x], and a written file decodes to the original grid.
C3_CanvasMatchesGrid ==
  (Rectangular(pixel_data) /\ (pc = "w_save" \/ (WriterEnded /\ save_attempts > 0))) =>
    /\ w_width = Len(pixel_data[1])
    /\ w_height = Len(pixel_data)
    /\ DOMAIN img = (0..(w_width - 1)) \X (0..(w_height - 1))
    /\ \A cy \in 0..(w_height - 1), cx \in 0..(w_width - 1) :
         img[<<cx, cy>>] = pixel_data[cy + 1][cx + 1]
    /\ printed = "Image saved successfully" =>
         /\ file.state = "written"
         /\ file.size = <<w_width, w_height>>
         /\ Decode(file) = pixel_data

C3_Witness ==
  /\ pc = "w_returned"
  /\ printed = "Image saved successfully"
  /\ Len(pixel_data) = 2 /\ Len(pixel_data[1]) = 2 /\ Len(pixel_data[2]) = 2
  /\ pixel_data[1][2] # pixel_data[2][1]
  /\ Decode(file) = pixel_data

\* C4 as stated: an empty grid, or a grid whose first row is empty, gives the
\* caller an EmptyInputError, distinct from a normal return, with no canvas
\* allocated and the file untouched.
C4_EmptyInputError ==
  (pc \in WriterPcs /\ pc # "w_check" /\ EmptyInput(pixel_data)) =>
    /\ result = "EmptyInputError"
    /\ ~img_allocated
    /\ file = file_at_call

\* C5 as stated: with positive width and height and a palette of fewer than
\* two entries the call fails, returns no grid, and fails before any row or
\* cell has been appended.
C5_PaletteUnderflow ==
  (pc \in GenPcs /\ width > 0 /\ height > 0 /\ Len(palette) < 2) =>
    /\ pc # "gen_returned"
    /\ pc = "gen_raised" => (pixel_grid = <<>> /\ row = <<>>)

\* C6 as stated: a non-positive width or height never returns a grid.
C6_NonPositiveRejected ==
  (pc \in GenPcs /\ (width <= 0 \/ height <= 0)) => pc # "gen_returned"

\* C7 as stated: after a failed save the caller never observes the outcome of
\* a successful save, which is a normal return of None.
C7_FailureSurfaced ==
  (WriterEnded /\ save_failed) => ~(pc = "w_returned" /\ result = "None")

\* C8: the save is attempted at most once per call and only after every cell
\* has been copied; a success writes the file exactly once, a rejected empty
\* input attempts no save and leaves the file as it was.
C8_SingleSave ==
  pc \in WriterPcs =>
    /\ save_attempts <= 1
    /\ (pc = "w_save" \/ save_attempts > 0) =>
         /\ copied = (0..(w_width - 1)) \X (0..(w_height - 1))
         /\ Cardinality(copied) = w_width * w_height
    /\ printed = "Image saved successfully" =>
         (save_attempts = 1 /\ file = Encode(img, w_width, w_height))
    /\ save_failed => (save_attempts = 1 /\ WriterEnded)
    /\ (pc # "w_check" /\ EmptyInput(pixel_data)) =>
         (save_attempts = 0 /\ file = file_at_call /\ pc = "w_returned")

C8_Witness ==
  /\ pc = "w_returned"
  /\ save_failed
  /\ save_attempts = 1
  /\ Cardinality(copied) = 4
  /\ file_at_call.state = "written"

\* C9: a call with the valid arguments of an earlier completed call returns
\* the same grid, whatever generator and writer calls ran in between, and the
\* palette is what it was when the call was made.
C9_Deterministic ==
  /\ pc \in GenPcs => palette = palette_at_call
  /\ (pc = "gen_returned" /\ seen.set
        /\ seen.width = width /\ seen.height = height /\ seen.palette = palette) =>
       pixel_grid = seen.grid

C9_Witness ==
  /\ pc = "gen_returned"
  /\ seen.set /\ seen.again
  /\ seen.width = width /\ seen.height = height /\ seen.palette = palette
  /\ width = 2 /\ height = 2
  /\ Len(palette) = 2 /\ palette[1] # palette[2]
  /\ file.state = "written" /\ Decode(file) = seen.grid
  /\ pixel_grid = seen.grid

\* C10: a grid with a non-empty first row and some shorter row makes the call
\* raise IndexError while copying, before any save: the file is untouched and
\* neither the empty-input nor the save-failure message is printed.
C10_RaggedAborts ==
  (pc \in WriterPcs /\ Ragged(pixel_data)) =>
    /\ pc \notin {"w_save", "w_returned"}
    /\ save_attempts = 0
    /\ ~save_failed
    /\ file = file_at_call
    /\ printed = "none"
    /\ pc = "w_raised" =>
         /\ result = "IndexError"
         /\ img_allocated
         /\ wy < w_height /\ wx < w_width
         /\ wx >= Len(pixel_data[wy + 1])

C10_Witness ==
  /\ pc = "w_raised"
  /\ Ragged(pixel_data)
  /\ result = "IndexError"
  /\ file.state = "written"
  /\ copied # {}
====
